---- MODULE Spec2Model ----
(***************************************************************************)
(* A model of the symbolic-expression engine: the shunting-yard tokenizer, *)
(* the postfix tree builder, the legacy binary Equation with its renderer  *)
(* and fixed-point simplifier, and the variadic Operation simplifier.      *)
(*                                                                         *)
(* Strings are TLA+ strings; a string that the code walks character by     *)
(* character (the tokenizer's input, its brace buffer) is a sequence of    *)
(* one-character strings.  Option<T> is a sequence of length 0 (None) or 1 *)
(* (Some).  An f64 is a sign-magnitude triple, see the F64 section.        *)
(***************************************************************************)
EXTENDS Integers, Sequences, FiniteSets, TLC

VARIABLES
    pc,               \* which call is in progress
    input,            \* shunting_yard_algorithm: the input, one character per element
    pos,              \* shunting_yard_algorithm: characters consumed by the for loop
    output,           \* shunting_yard_algorithm: output
    operator_stack,   \* shunting_yard_algorithm: operator_stack
    variable_buffer,  \* shunting_yard_algorithm: variable_buffer
    postfix,          \* binary_tree_algorithm: the tokens not yet consumed
    stack,            \* binary_tree_algorithm: stack
    self,             \* the Equation (Option: <<>> before it exists)
    rendered,         \* Into<String>: the rendering of self (Option)
    original,         \* Equation::simplify: the rendering taken at the start of the pass
    passes,           \* Equation::simplify: passes of the outermost call so far
    calls,            \* Equation::simplify: completed outermost calls
    first,            \* the Equation returned by the first simplify call (Option)
    start,            \* the Equation the first simplify call was given (Option)
    op,               \* Operation::simplify: the Operation it is called on (Option)
    res,              \* Operation::simplify: the returned Option<Operation>
    opcalls,          \* Operation::simplify: calls made so far
    variables,        \* Equation::get_variables: the returned Vec (Option)
    other,            \* the second Operation of a comparison (Option)
    verdict,          \* what == and compare_structure return on op and other (Option)
    prior,            \* expand: the Result returned for op (Option)
    template,         \* apply_mapping: the Operation it is called on (Option)
    index,            \* create_mapping_index: the returned Vec (Option)
    applied           \* apply_mapping: the returned Operation (Option)

vars == <<pc, input, pos, output, operator_stack, variable_buffer, postfix, stack,
          self, rendered, original, passes, calls, first, start, op, res, opcalls,
          variables, other, verdict, prior, template, index, applied>>

(***************************************************************************)
(* Bounds of the model.                                                    *)
(***************************************************************************)
\* operators in a tokenizer input
MaxOps == 3
\* operator nodes in an Equation handed to Equation::simplify
MaxEqOps == 2
\* passes the fixed-point loop of Equation::simplify is followed for
MaxPasses == 8
\* the Value leaves of an Operation hold 0..MaxValue
MaxValue == 1

None == <<>>
Some(x) == <<x>>

RECURSIVE Concat(_)
\* the String made of a sequence of characters (or of strings)
Concat(s) == IF s = <<>> THEN "" ELSE Head(s) \o Concat(Tail(s))

Front(s) == SubSeq(s, 1, Len(s) - 1)
Last(s) == s[Len(s)]

RECURSIVE Reverse(_)
Reverse(s) == IF s = <<>> THEN <<>> ELSE Append(Reverse(Tail(s)), Head(s))

(***************************************************************************)
(* f64.  A value is <<sgn, n, d>>: sign sgn in {1, -1} and magnitude n/d   *)
(* in lowest terms; d = 0 with n = 1 is an infinity, n = d = 0 is NaN      *)
(* (sign 1).  Zero keeps its sign, as in IEEE 754.  The magnitudes the     *)
(* model reaches are exact in f64 or stand for the one f64 the same        *)
(* operation sequence yields.                                              *)
(***************************************************************************)
RECURSIVE Gcd(_, _)
Gcd(a, b) == IF b = 0 THEN a ELSE Gcd(b, a % b)

NaN == <<1, 0, 0>>
IsNaN(v) == v[2] = 0 /\ v[3] = 0
IsInf(v) == v[2] # 0 /\ v[3] = 0
IsZeroF(v) == v[2] = 0 /\ v[3] # 0

\* sign s, magnitude n/d (n, d >= 0), normalised
Norm(s, n, d) ==
    IF n = 0 /\ d = 0 THEN NaN
    ELSE IF d = 0 THEN <<s, 1, 0>>
    ELSE IF n = 0 THEN <<s, 0, 1>>
    ELSE LET g == Gcd(n, d) IN <<s, n \div g, d \div g>>

F(i) == IF i < 0 THEN <<-1, -i, 1>> ELSE <<1, i, 1>>

FNeg(v) == IF IsNaN(v) THEN NaN ELSE <<-v[1], v[2], v[3]>>
FMul(a, b) == Norm(a[1] * b[1], a[2] * b[2], a[3] * b[3])
FDiv(a, b) == Norm(a[1] * b[1], a[2] * b[3], a[3] * b[2])
FAdd(a, b) ==
    IF IsNaN(a) \/ IsNaN(b) THEN NaN
    ELSE IF IsInf(a) /\ IsInf(b) THEN (IF a[1] = b[1] THEN a ELSE NaN)
    ELSE IF IsInf(a) THEN a
    ELSE IF IsInf(b) THEN b
    ELSE LET num == a[1] * a[2] * b[3] + b[1] * b[2] * a[3]
             den == a[3] * b[3]
         IN  IF num = 0 THEN (IF a[1] = b[1] THEN <<a[1], 0, 1>> ELSE <<1, 0, 1>>)
             ELSE IF num < 0 THEN Norm(-1, -num, den)
             ELSE Norm(1, num, den)
FSub(a, b) == FAdd(a, FNeg(b))

\* f64 ==: NaN equals nothing, the two zeros are equal
FEq(a, b) ==
    /\ ~IsNaN(a)
    /\ ~IsNaN(b)
    /\ \/ a = b
       \/ IsZeroF(a) /\ IsZeroF(b)

\* EquationMember for f64, equation_repr: the value rounded to three decimals
\* (f64::round is half away from zero), then f64's to_string
EquationReprF64(v) ==
    IF IsNaN(v) THEN "NaN"
    ELSE IF IsInf(v) THEN (IF v[1] < 0 THEN "-inf" ELSE "inf")
    ELSE LET m == (2000 * v[2] + v[3]) \div (2 * v[3])
             r == m % 1000
             d1 == ToString(r \div 100)
             d2 == ToString((r \div 10) % 10)
             d3 == ToString(r % 10)
         IN  (IF v[1] < 0 THEN "-" ELSE "")
             \o ToString(m \div 1000)
             \o (IF r = 0 THEN ""
                 ELSE IF r % 10 # 0 THEN "." \o d1 \o d2 \o d3
                 ELSE IF r % 100 # 0 THEN "." \o d1 \o d2
                 ELSE "." \o d1)

\* the literals str::parse::<f64> is given in the model, and their values
F64Literals ==
    [l \in {"0", "1", "2", "3", "4", "5", "6", "7", "8", "9", "-1"} |->
        CASE l = "0" -> F(0) [] l = "1" -> F(1) [] l = "2" -> F(2)
          [] l = "3" -> F(3) [] l = "4" -> F(4) [] l = "5" -> F(5)
          [] l = "6" -> F(6) [] l = "7" -> F(7) [] l = "8" -> F(8)
          [] l = "9" -> F(9) [] l = "-1" -> F(-1)]

\* str::parse::<f64>: Ok(v) as <<v>>, Err as <<>>
ParseF64(s) == IF s \in DOMAIN F64Literals THEN Some(F64Literals[s]) ELSE None

(***************************************************************************)
(* The legacy Operation that is the root of an Equation node: the unit     *)
(* variants Add, Subtract, Multiply, Divide and the leaves Value(f64),     *)
(* Variable(String).  Every root is a record of the same three fields.     *)
(***************************************************************************)
Add == [kind |-> "Add", val |-> F(0), name |-> ""]
Subtract == [kind |-> "Subtract", val |-> F(0), name |-> ""]
Multiply == [kind |-> "Multiply", val |-> F(0), name |-> ""]
Divide == [kind |-> "Divide", val |-> F(0), name |-> ""]
Value(v) == [kind |-> "Value", val |-> v, name |-> ""]
Variable(s) == [kind |-> "Variable", val |-> F(0), name |-> s]

\* root.equation_repr(): the operator's character, the number, the name
RootRepr(r) ==
    CASE r.kind = "Add" -> "+"
      [] r.kind = "Subtract" -> "-"
      [] r.kind = "Multiply" -> "*"
      [] r.kind = "Divide" -> "/"
      [] r.kind = "Value" -> EquationReprF64(r.val)
      [] OTHER -> r.name

\* root == other.root
RootEq(a, b) ==
    /\ a.kind = b.kind
    /\ a.kind = "Value" => FEq(a.val, b.val)
    /\ a.kind = "Variable" => a.name = b.name

(***************************************************************************)
(* Equation { root, left, right }                                          *)
(***************************************************************************)
Equation(root, left, right) == [root |-> root, left |-> left, right |-> right]

\* Equation::new
New(root) == Equation(root, None, None)

\* Equation::leaf
Leaf(e) == e.left = None \/ e.right = None

RECURSIVE equation_repr(_)
\* Equation::equation_repr
equation_repr(e) ==
    LET out1 == IF e.left # None
                THEN (IF ~Leaf(e.left[1])
                      THEN "(" \o equation_repr(e.left[1]) \o ")"
                      ELSE equation_repr(e.left[1]))
                ELSE ""
        out2 == out1 \o RootRepr(e.root)
    IN  IF e.right # None
        THEN (IF ~Leaf(e.right[1])
              THEN "(" \o (out2 \o equation_repr(e.right[1])) \o ")"
              ELSE out2 \o equation_repr(e.right[1]))
        ELSE out2

RECURSIVE EqEq(_, _)
\* PartialEq for Equation
EqEq(a, b) ==
    /\ RootEq(a.root, b.root)
    /\ IF a.left = None \/ b.left = None THEN a.left = b.left
       ELSE EqEq(a.left[1], b.left[1])
    /\ IF a.right = None \/ b.right = None THEN a.right = b.right
       ELSE EqEq(a.right[1], b.right[1])

\* f64::to_string of a whole number, of NaN and of the infinities (the values
\* a parsed tree holds are whole)
F64ToString(v) ==
    IF IsNaN(v) THEN "NaN"
    ELSE IF IsInf(v) THEN (IF v[1] < 0 THEN "-inf" ELSE "inf")
    ELSE (IF v[1] < 0 THEN "-" ELSE "") \o ToString(v[2] \div v[3])

RECURSIVE get_variables(_)
\* Equation::get_variables
get_variables(e) ==
    (CASE e.root.kind = "Value" -> <<F64ToString(e.root.val)>>
       [] e.root.kind = "Variable" -> <<e.root.name>>
       [] OTHER -> <<>>)
    \o (IF e.left = None THEN <<>> ELSE get_variables(e.left[1]))
    \o (IF e.right = None THEN <<>> ELSE get_variables(e.right[1]))

(***************************************************************************)
(* shunting_yard_algorithm                                                 *)
(***************************************************************************)
precedence(c) ==
    CASE c \in {"+", "-"} -> 1
      [] c \in {"*", "/"} -> 2
      [] c = "^" -> 3
      [] OTHER -> 0

RECURSIVE PopOperatorsNoTies(_, _, _)
\* PopOperators stopping at an operator of equal precedence too
PopOperatorsNoTies(out, stk, x) ==
    IF stk = <<>> THEN <<out, stk>>
    ELSE IF precedence(Last(stk)) <= precedence(x) THEN <<out, stk>>
    ELSE PopOperatorsNoTies(Append(out, Last(stk)), Front(stk), x)

RECURSIVE PopOperators(_, _, _)
\* the while-let loop of an operator token: <<output, operator_stack>>
PopOperators(out, stk, x) ==
    IF stk = <<>> THEN <<out, stk>>
    ELSE IF precedence(Last(stk)) < precedence(x) THEN <<out, stk>>
    ELSE PopOperators(Append(out, Last(stk)), Front(stk), x)

RECURSIVE PopToLeft(_, _)
\* the while-let loop of ')': <<output, operator_stack, found>>
PopToLeft(out, stk) ==
    IF stk = <<>> THEN <<out, stk, FALSE>>
    ELSE IF Last(stk) = "(" THEN <<out, Front(stk), TRUE>>
    ELSE PopToLeft(Append(out, Last(stk)), Front(stk))

NotBrace(c) == c # "{" /\ c # "}"

\* CloseBrace pushing cleaned whether or not it parses
CloseBraceStripped(buf) == Concat(SelectSeq(buf, NotBrace))

\* the token pushed when '}' closes the buffer buf
CloseBrace(buf) ==
    LET cleaned == Concat(SelectSeq(buf, NotBrace))
    IN  IF ParseF64(cleaned) # None THEN cleaned ELSE Concat(buf)

\* one iteration of 'operator_loop on the character x
ScanChar(st, x) ==
    IF st.variable_buffer # <<>>
    THEN IF x = "}"
         THEN [st EXCEPT !.output = Append(@, CloseBrace(Append(st.variable_buffer, x))),
                         !.variable_buffer = <<>>]
         ELSE [st EXCEPT !.variable_buffer = Append(@, x)]
    ELSE CASE x \in {"+", "-", "*", "/"} ->
                LET p == PopOperators(st.output, st.operator_stack, x)
                IN  [st EXCEPT !.output = p[1], !.operator_stack = Append(p[2], x)]
           [] x = "(" -> [st EXCEPT !.operator_stack = Append(@, x)]
           [] x = ")" ->
                LET p == PopToLeft(st.output, st.operator_stack)
                IN  [st EXCEPT !.output = p[1], !.operator_stack = p[2],
                               !.panic = ~p[3]]
           [] x = "{" -> [st EXCEPT !.variable_buffer = <<x>>]
           [] x = " " -> st
           [] OTHER -> [st EXCEPT !.output = Append(@, x)]

\* Drain that appends nothing
DrainNothing(out, stk) == out

\* the drain of operator_stack after the loop
Drain(out, stk) == out \o Reverse(stk)

ScanInit ==
    [output |-> <<>>, operator_stack |-> <<>>, variable_buffer |-> <<>>,
     panic |-> FALSE]

RECURSIVE ScanAll(_, _)
ScanAll(st, s) ==
    IF s = <<>> \/ st.panic THEN st ELSE ScanAll(ScanChar(st, Head(s)), Tail(s))

\* shunting_yard_algorithm(input): Some(tokens), or None when it panics
shunting_yard_algorithm(s) ==
    LET st == ScanAll(ScanInit, s)
    IN  IF st.panic THEN None ELSE Some(Drain(st.output, st.operator_stack))

(***************************************************************************)
(* binary_tree_algorithm                                                   *)
(***************************************************************************)
OperatorOf(x) ==
    CASE x = "+" -> Add
      [] x = "-" -> Subtract
      [] x = "*" -> Multiply
      [] OTHER -> Divide

\* Vec::pop: <<popped Option, rest>>
Pop(stk) == IF stk = <<>> THEN <<None, stk>> ELSE <<Some(Last(stk)), Front(stk)>>

\* BuildToken taking the first popped node as the left child
BuildTokenSwapped(stk, x) ==
    IF x \in {"+", "-", "*", "/"}
    THEN LET r == Pop(stk)
             l == Pop(r[2])
         IN  Append(l[2], Equation(OperatorOf(x), r[1], l[1]))
    ELSE IF ParseF64(x) # None
         THEN Append(stk, New(Value(ParseF64(x)[1])))
         ELSE Append(stk, New(Variable(x)))

\* one iteration of the for loop on the token x
BuildToken(stk, x) ==
    IF x \in {"+", "-", "*", "/"}
    THEN LET r == Pop(stk)
             l == Pop(r[2])
         IN  Append(l[2], Equation(OperatorOf(x), l[1], r[1]))
    ELSE IF ParseF64(x) # None
         THEN Append(stk, New(Value(ParseF64(x)[1])))
         ELSE Append(stk, New(Variable(x)))

RECURSIVE BuildAll(_, _)
BuildAll(stk, toks) ==
    IF toks = <<>> THEN stk ELSE BuildAll(BuildToken(stk, Head(toks)), Tail(toks))

\* binary_tree_algorithm(input): Some(tree), or None when unwrap panics
binary_tree_algorithm(toks) == Pop(BuildAll(<<>>, toks))[1]

\* Equation::from(String)
FromString(s) ==
    LET p == shunting_yard_algorithm(s)
    IN  IF p = None THEN None ELSE binary_tree_algorithm(p[1])

(***************************************************************************)
(* Malleable for Equation: simplify                                        *)
(***************************************************************************)
\* what a panic!() leaves in place of the Equation
Panic == New([kind |-> "Panic", val |-> F(0), name |-> "!"])
\* what the model leaves when it stops following the recursion
Diverged == New([kind |-> "Diverged", val |-> F(0), name |-> "?"])

RECURSIVE Poisoned(_)
Poisoned(e) ==
    \/ e.root.kind \in {"Panic", "Diverged"}
    \/ e.left # None /\ Poisoned(e.left[1])
    \/ e.right # None /\ Poisoned(e.right[1])

IsValue(e) == e.root.kind = "Value"
\* the patterns Value(0.0) and Value(1.0): a float pattern matches by ==
IsValue0(e) == IsValue(e) /\ FEq(e.root.val, F(0))
\* the arms of Value(1.0) never taken
IsValue1Never(e) == FALSE
IsValue1(e) == IsValue(e) /\ FEq(e.root.val, F(1))

\* the arm (None, Some(right)) of Add | Subtract
MissingLeftArm(e) ==
    IF e.root.kind = "Subtract"
    THEN Equation(Multiply, Some(New(Value(F(-1)))), e.right)
    ELSE e.right[1]

\* the arm (Value(0.0), _) with a Subtract case that negates the right operand
ZeroLeftArmNegates(e) ==
    IF e.root.kind = "Add" THEN e.right[1]
    ELSE Equation(Multiply, Some(New(Value(F(-1)))), e.right)

\* the arm (Value(0.0), _) of Add | Subtract
ZeroLeftArm(e) == IF e.root.kind = "Add" THEN e.right[1] ELSE e

\* the match on self.root: the Equation self is after it
RootRule(e) ==
    LET k == e.root.kind
        both == e.left # None /\ e.right # None
        l == e.left[1]
        r == e.right[1]
    IN  CASE k \in {"Add", "Subtract"} ->
               IF both
               THEN IF IsValue(l) /\ IsValue(r)
                    THEN New(Value(IF k = "Add" THEN FAdd(l.root.val, r.root.val)
                                   ELSE FSub(l.root.val, r.root.val)))
                    ELSE IF IsValue0(r) THEN l
                    ELSE IF IsValue0(l) THEN ZeroLeftArm(e)
                    ELSE e
               ELSE IF e.left # None THEN l
               ELSE IF e.right # None THEN MissingLeftArm(e)
               ELSE e
          [] k = "Multiply" ->
               IF both
               THEN IF IsValue(l) /\ IsValue(r)
                    THEN New(Value(FMul(l.root.val, r.root.val)))
                    ELSE IF IsValue0(r) THEN New(Value(F(0)))
                    ELSE IF IsValue0(l) THEN New(Value(F(0)))
                    ELSE IF IsValue1(l) THEN r
                    ELSE IF IsValue1(r) THEN l
                    ELSE e
               ELSE IF e.left # None \/ e.right # None THEN New(Value(F(0)))
               ELSE Panic
          [] k = "Divide" ->
               IF both
               THEN IF IsValue(l) /\ IsValue(r)
                    THEN New(Value(FDiv(l.root.val, r.root.val)))
                    ELSE IF IsValue1(r) THEN l
                    ELSE e
               ELSE IF e.left = None /\ e.right # None THEN New(Value(F(0)))
               ELSE Panic
          [] OTHER -> e

RECURSIVE simplify(_, _), Pass(_, _)
\* one body of simplify up to the comparison with original: the match on the
\* root, then left.simplify() and right.simplify()
Pass(e, fuel) ==
    LET m == RootRule(e)
        l == IF m.left = None THEN None ELSE Some(simplify(m.left[1], fuel))
        r == IF m.right = None THEN None ELSE Some(simplify(m.right[1], fuel))
        p == Equation(m.root, l, r)
    IN  IF Poisoned(p) THEN (IF Poisoned(m) THEN m ELSE
                             IF l # None /\ Poisoned(l[1]) THEN l[1] ELSE r[1])
        ELSE p

\* Equation::simplify, the recursion on self followed for fuel further passes
simplify(e, fuel) ==
    LET p == Pass(e, fuel)
    IN  IF Poisoned(p) THEN p
        ELSE IF equation_repr(e) # equation_repr(p)
        THEN (IF fuel = 0 THEN Diverged ELSE simplify(p, fuel - 1))
        ELSE p

(***************************************************************************)
(* Operation: the expression tree with variadic Sum and Multiply.  A Vec   *)
(* is a sequence and an Option<Box<Operation>> a sequence of length 0 or 1.*)
(***************************************************************************)
OpMultiply(list) == [kind |-> "Multiply", list |-> list]
OpNegate(a) == [kind |-> "Negate", a |-> a]
OpDivide(a, b) == [kind |-> "Divide", a |-> a, b |-> b]
OpSum(list) == [kind |-> "Sum", list |-> list]
OpValue(v) == [kind |-> "Value", val |-> v]
OpText(t) == [kind |-> "Text", text |-> t]
OpMapping(i) == [kind |-> "Mapping", idx |-> i]
OpEqual(a, b) == [kind |-> "Equal", a |-> a, b |-> b]
\* Variable(Rc<dyn EquationMember>): the member is what its equation_repr and
\* value return
OpVariable(m) == [kind |-> "Variable", member |-> m]

\* what a panic!() leaves in place of an Operation
OpPanic == [kind |-> "Panic"]

RECURSIVE ValuePanics(_)
\* Operation::value reaches its arm panic!("Not implemented")
ValuePanics(e) ==
    CASE e.kind \in {"Multiply", "Sum"} -> \E i \in 1..Len(e.list) : ValuePanics(e.list[i])
      [] e.kind = "Negate" -> e.a = None \/ ValuePanics(e.a[1])
      [] e.kind = "Divide" ->
             e.a = None \/ e.b = None \/ ValuePanics(e.a[1]) \/ ValuePanics(e.b[1])
      [] e.kind \in {"Value", "Mapping", "Text", "Variable"} -> FALSE
      [] OTHER -> TRUE

RECURSIVE operation_value(_), ProductOf(_), TotalOf(_)
ProductOf(list) ==
    IF list = <<>> THEN F(1)
    ELSE FMul(ProductOf(Front(list)), operation_value(Last(list)))
TotalOf(list) ==
    IF list = <<>> THEN F(0)
    ELSE FAdd(TotalOf(Front(list)), operation_value(Last(list)))
\* Operation::value, where it does not panic
operation_value(e) ==
    CASE e.kind = "Multiply" -> ProductOf(e.list)
      [] e.kind = "Negate" -> FNeg(operation_value(e.a[1]))
      [] e.kind = "Sum" -> TotalOf(e.list)
      [] e.kind = "Divide" -> FDiv(operation_value(e.a[1]), operation_value(e.b[1]))
      [] e.kind = "Value" -> e.val
      [] e.kind = "Variable" -> e.member.value
      [] OTHER -> F(1)

RECURSIVE operation_eq(_, _)
\* PartialEq for Operation
operation_eq(x, y) ==
    LET opt(a, b) == IF a = None \/ b = None THEN a = b ELSE operation_eq(a[1], b[1])
        lists(a, b) ==
            /\ \A i \in 1..Len(a) : \E j \in 1..Len(b) : operation_eq(b[j], a[i])
            /\ Len(b) = Len(a)
    IN  IF x.kind # y.kind THEN FALSE
        ELSE CASE x.kind = "Value" -> FEq(x.val, y.val)
               [] x.kind = "Text" -> x.text = y.text
               [] x.kind \in {"Multiply", "Sum"} -> lists(x.list, y.list)
               [] x.kind = "Negate" -> opt(x.a, y.a)
               [] x.kind = "Divide" -> opt(x.a, y.a) /\ opt(x.b, y.b)
               [] x.kind = "Mapping" -> x.idx = y.idx
               [] OTHER -> FALSE

\* the value of a simplified child, or the panic of reading it
Folded(s) == s[1].kind # "Panic" /\ ~ValuePanics(s[1])

\* the arm Sum(vec) of the closure of Sum: the terms are moved up as they are
SumNested(acc, x) == [acc EXCEPT !.result = acc.result \o x.list]

\* the arm _ of the closure of Multiply when the child simplifies to Some
MultiplyChild(acc, x, s) ==
    IF Folded(s) THEN [acc EXCEPT !.coefficient = FMul(acc.coefficient, operation_value(s[1]))]
    ELSE [acc EXCEPT !.panic = TRUE]

\* NoSimplification when one of the two is None
NoSimplificationOfOne(s0, s1) == s0 = None \/ s1 = None

\* if let (None, None) = simplification
NoSimplification(s0, s1) == s0 = None /\ s1 = None

RECURSIVE operation_simplify(_), MultiplyFold(_), SumFold(_)
\* the closure of the Multiply arm run over list
MultiplyFold(list) ==
    IF list = <<>> THEN [coefficient |-> F(1), result |-> <<>>, panic |-> FALSE]
    ELSE LET acc == MultiplyFold(Front(list))
             x == Last(list)
         IN  IF x.kind = "Value"
             THEN [acc EXCEPT !.coefficient = FMul(acc.coefficient, x.val)]
             ELSE IF x.kind \in {"Mapping", "Text"}
             THEN [acc EXCEPT !.result = Append(acc.result, x)]
             ELSE LET s == operation_simplify(x)
                  IN  IF s = None THEN [acc EXCEPT !.result = Append(acc.result, x)]
                      ELSE MultiplyChild(acc, x, s)

\* the closure of the Sum arm run over list
SumFold(list) ==
    IF list = <<>> THEN [total |-> F(0), result |-> <<>>, panic |-> FALSE]
    ELSE LET acc == SumFold(Front(list))
             x == Last(list)
         IN  IF x.kind = "Value"
             THEN [acc EXCEPT !.total = FAdd(acc.total, x.val)]
             ELSE IF x.kind \in {"Mapping", "Text", "Variable"}
             THEN [acc EXCEPT !.result = Append(acc.result, x)]
             ELSE IF x.kind = "Sum" THEN SumNested(acc, x)
             ELSE LET s == operation_simplify(x)
                  IN  IF s = None THEN [acc EXCEPT !.result = Append(acc.result, x)]
                      ELSE IF Folded(s)
                      THEN [acc EXCEPT !.total = FAdd(acc.total, operation_value(s[1]))]
                      ELSE [acc EXCEPT !.panic = TRUE]

\* Operation::simplify: None, Some(r), or Some(OpPanic) where it panics
operation_simplify(e) ==
    CASE e.kind = "Multiply" ->
             LET acc == MultiplyFold(e.list)
                 result == Append(acc.result, OpValue(acc.coefficient))
             IN  IF acc.panic THEN Some(OpPanic)
                 ELSE IF Len(result) = 1 THEN Some(result[1])
                 ELSE Some(OpMultiply(result))
      [] e.kind = "Sum" ->
             LET acc == SumFold(e.list)
                 result == IF ~FEq(acc.total, F(0))
                           THEN Append(acc.result, OpValue(acc.total))
                           ELSE acc.result
             IN  IF acc.panic THEN Some(OpPanic)
                 ELSE IF Len(result) = 1 THEN Some(result[1])
                 ELSE Some(OpSum(result))
      [] e.kind = "Negate" /\ e.a # None ->
             LET child == e.a[1]
             IN  CASE child.kind = "Negate" -> child.a
                   [] child.kind = "Value" -> Some(OpValue(FNeg(child.val)))
                   [] child.kind = "Sum" ->
                          Some(OpSum([i \in 1..Len(child.list) |->
                                          OpNegate(Some(child.list[i]))]))
                   [] OTHER ->
                          LET result == operation_simplify(child)
                          IN  IF result = None THEN None
                              ELSE IF result[1].kind = "Value"
                              THEN Some(OpValue(FNeg(result[1].val)))
                              ELSE IF result[1].kind = "Negate" /\ result[1].a # None
                              THEN result[1].a
                              ELSE IF result[1].kind = "Panic" THEN result
                              ELSE Some(OpNegate(result))
      [] e.kind \in {"Divide", "Equal"} /\ e.a # None /\ e.b # None ->
             LET s0 == operation_simplify(e.a[1])
                 s1 == operation_simplify(e.b[1])
                 a == IF s0 = None THEN e.a ELSE s0
                 b == IF s1 = None THEN e.b ELSE s1
             IN  IF a[1].kind = "Panic" \/ b[1].kind = "Panic" THEN Some(OpPanic)
                 ELSE IF e.kind = "Divide" /\ s0 # None /\ s1 # None
                         /\ s0[1].kind = "Value" /\ s1[1].kind = "Value"
                 THEN Some(OpValue(FDiv(s0[1].val, s1[1].val)))
                 ELSE IF NoSimplification(s0, s1) THEN None
                 ELSE IF e.kind = "Divide" THEN Some(OpDivide(a, b))
                 ELSE Some(OpEqual(a, b))
      [] e.kind = "Value" -> Some(e)
      [] OTHER -> None

(***************************************************************************)
(* Operation::matches and Operation::compare_structure                     *)
(***************************************************************************)
\* LeafKinds without Variable
LeafKindsNoVariable == {"Value", "Text", "Mapping"}
\* the kinds of the pattern Value(_) | Text(_) | Mapping(_) | Variable(_)
LeafKinds == {"Value", "Text", "Mapping", "Variable"}

\* the kinds of the arm (Value(_) | Text(_) | Mapping(_), Value(_) | Text(_) | Mapping(_))
MatchingLeafKinds == {"Value", "Text", "Mapping"}

\* matches whose leaf arm takes a Value on the left only
matchesValueFirst(ls, rs) ==
    \/ ls.kind = rs.kind /\ ls.kind \in {"Sum", "Multiply", "Negate", "Divide", "Mapping", "Equal"}
    \/ ls.kind = "Value" /\ rs.kind \in MatchingLeafKinds

\* Operation::matches
matches(ls, rs) ==
    \/ ls.kind = rs.kind /\ ls.kind \in {"Sum", "Multiply", "Negate", "Divide", "Mapping", "Equal"}
    \/ ls.kind \in MatchingLeafKinds /\ rs.kind \in MatchingLeafKinds

IsNegateSome(e) == e.kind = "Negate" /\ e.a # None
IsDivideSome(e) == e.kind = "Divide" /\ e.a # None /\ e.b # None

RECURSIVE compare_structure(_, _)
\* Operation::compare_structure, the arms in the order of the match
compare_structure(ls, rs) ==
    IF ls.kind = rs.kind /\ ls.kind \in {"Sum", "Multiply"}
    THEN /\ Len(ls.list) = Len(rs.list)
         /\ \A i \in 1..Len(ls.list) : compare_structure(ls.list[i], rs.list[i])
    ELSE IF IsNegateSome(ls) /\ IsNegateSome(rs) THEN compare_structure(ls.a[1], rs.a[1])
    ELSE IF IsNegateSome(ls) THEN compare_structure(ls.a[1], rs)
    ELSE IF IsNegateSome(rs) THEN compare_structure(rs.a[1], ls)
    ELSE IF IsDivideSome(ls) /\ IsDivideSome(rs)
    THEN compare_structure(ls.b[1], rs.b[1]) /\ compare_structure(ls.a[1], rs.a[1])
    ELSE IF rs.kind = "Mapping" \/ ls.kind = "Mapping" THEN TRUE
    ELSE matches(ls, rs)

(***************************************************************************)
(* mappings: expansions, create_mapping_index, apply_mapping, map, expand  *)
(***************************************************************************)
\* the table with the replacement of the first rule in the other order
expansionsSwapped ==
    <<<<OpDivide(Some(OpSum(<<OpMapping(0), OpMapping(1)>>)), Some(OpMapping(2))),
        OpSum(<<OpDivide(Some(OpMapping(1)), Some(OpMapping(2))),
                OpDivide(Some(OpMapping(0)), Some(OpMapping(2)))>>)>>,
      <<OpDivide(Some(OpSum(<<OpMapping(0), OpMapping(1), OpMapping(2)>>)),
                 Some(OpMapping(3))),
        OpSum(<<OpDivide(Some(OpMapping(0)), Some(OpMapping(3))),
                OpDivide(Some(OpMapping(1)), Some(OpMapping(3))),
                OpDivide(Some(OpMapping(2)), Some(OpMapping(3)))>>)>>>>

\* expansions(): the pairs (pattern, replacement)
expansions ==
    <<<<OpDivide(Some(OpSum(<<OpMapping(0), OpMapping(1)>>)), Some(OpMapping(2))),
        OpSum(<<OpDivide(Some(OpMapping(0)), Some(OpMapping(2))),
                OpDivide(Some(OpMapping(1)), Some(OpMapping(2)))>>)>>,
      <<OpDivide(Some(OpSum(<<OpMapping(0), OpMapping(1), OpMapping(2)>>)),
                 Some(OpMapping(3))),
        OpSum(<<OpDivide(Some(OpMapping(0)), Some(OpMapping(3))),
                OpDivide(Some(OpMapping(1)), Some(OpMapping(3))),
                OpDivide(Some(OpMapping(2)), Some(OpMapping(3)))>>)>>>>

RECURSIVE create_mapping_index(_)
\* create_mapping_index
create_mapping_index(e) ==
    LET RECURSIVE Extend(_)
        Extend(l) == IF l = <<>> THEN <<>>
                     ELSE create_mapping_index(Head(l)) \o Extend(Tail(l))
    IN  CASE e.kind \in {"Multiply", "Sum"} -> Extend(e.list)
          [] IsNegateSome(e) ->
                 IF e.a[1].kind \in LeafKinds THEN <<e>> ELSE create_mapping_index(e.a[1])
          [] e.kind \in {"Divide", "Equal"} /\ e.a # None /\ e.b # None ->
                 create_mapping_index(e.a[1]) \o create_mapping_index(e.b[1])
          [] e.kind \in LeafKinds -> <<e>>
          [] OTHER -> <<>>

RECURSIVE apply_mapping(_, _)
\* apply_mapping
apply_mapping(e, mappings) ==
    CASE e.kind \in {"Multiply", "Sum"} ->
             [e EXCEPT !.list = [i \in 1..Len(e.list) |-> apply_mapping(e.list[i], mappings)]]
      [] IsNegateSome(e) ->
             IF e.a[1].kind \in {"Value", "Text"} THEN OpValue(F(0)) ELSE e
      [] e.kind \in {"Divide", "Equal"} /\ e.a # None /\ e.b # None ->
             [e EXCEPT !.a = Some(apply_mapping(e.a[1], mappings)),
                       !.b = Some(apply_mapping(e.b[1], mappings))]
      [] e.kind \in {"Value", "Text"} -> OpValue(F(0))
      [] e.kind = "Mapping" ->
             IF e.idx < Len(mappings) THEN mappings[e.idx + 1] ELSE e
      [] OTHER -> e

RECURSIVE FirstMatch(_, _)
\* the for loop of map: the replacement of the first pattern that output
\* matches, or output when there is none
FirstMatch(out, mapping) ==
    IF mapping = <<>> THEN out
    ELSE IF compare_structure(out, Head(mapping)[1]) THEN Head(mapping)[2]
    ELSE FirstMatch(out, Tail(mapping))

\* map
map(e, mapping) ==
    LET x == apply_mapping(FirstMatch(e, mapping), create_mapping_index(e))
    IN  IF IsNegateSome(e) THEN OpNegate(Some(x)) ELSE x

\* Result<Operation, Operation>
Ok(x) == [ok |-> TRUE, val |-> x]
Err(x) == [ok |-> FALSE, val |-> x]

\* expand
expand(e) ==
    LET out == map(e, expansions)
    IN  IF compare_structure(out, e) THEN Err(out) ELSE Ok(out)

(***************************************************************************)
(* The inputs of the tokenizer: infix strings with at most MaxOps binary   *)
(* operators, in which a compound operand is written with or without       *)
(* parentheses, and the unary and brace forms -(s) and {-1}*(s).  The i-th *)
(* operand of a string is the i-th entry of Operands.  Then strings that   *)
(* repeat an operand, malformed strings, and strings with a token in       *)
(* braces.                                                                 *)
(***************************************************************************)
Operators == {"+", "-", "*", "/"}
Operands == <<"a", "b", "4", "c", "2", "d", "5", "e">>

Wrap(S) == S \cup {<<"(">> \o t \o <<")">> : t \in {u \in S : Len(u) > 1}}

\* the strings with exactly k operators, every operand written x
Shapes[k \in Nat] ==
    IF k = 0 THEN {<<"x">>}
    ELSE UNION {{l \o <<o>> \o r : l \in Wrap(Shapes[i]), o \in Operators,
                                   r \in Wrap(Shapes[k - 1 - i])} : i \in 0..(k - 1)}

\* the strings with exactly k operators whose compound operands are all, and
\* only they, in parentheses
FullShapes[k \in Nat] ==
    IF k = 0 THEN {<<"x">>}
    ELSE UNION {{l \o <<o>> \o r :
                     l \in (IF i = 0 THEN FullShapes[0]
                            ELSE {<<"(">> \o t \o <<")">> : t \in FullShapes[i]}),
                     o \in Operators,
                     r \in (IF k - 1 - i = 0 THEN FullShapes[0]
                            ELSE {<<"(">> \o t \o <<")">> : t \in FullShapes[k - 1 - i]})}
                : i \in 0..(k - 1)}

RECURSIVE Relabel(_, _)
\* s with its operands x replaced by Operands[i], Operands[i + 1], ...
Relabel(s, i) ==
    IF s = <<>> THEN <<>>
    ELSE IF Head(s) = "x" THEN <<Operands[i]>> \o Relabel(Tail(s), i + 1)
    ELSE <<Head(s)>> \o Relabel(Tail(s), i)

InfixInputs == {Relabel(t, 1) : t \in UNION {Shapes[k] : k \in 0..MaxOps}}
FullParenInputs == {Relabel(t, 1) : t \in UNION {FullShapes[k] : k \in 0..MaxOps}}
UnaryInputs ==
    {<<"-", "(">> \o Relabel(t, 1) \o <<")">> : t \in Shapes[0] \cup Shapes[1]}
BraceInputs ==
    {<<"{", "-", "1", "}", "*", "(">> \o Relabel(t, 1) \o <<")">> :
        t \in Shapes[0] \cup Shapes[1]}
\* two operators over operands that may be the same name
RepeatInputs ==
    {<<x, o, y, p, z>> : x \in {"a", "b"}, y \in {"a", "b"}, z \in {"a", "b"},
                         o \in {"+", "*"}, p \in {"+", "/"}}
    \cup {<<"(", "a", "+", "b", ")", "/", "c">>, <<"a", "+", "a">>}
\* parentheses that do not match, and operands without an operator
MalformedInputs ==
    {<<"(", "a">>, <<"(", "a", "+", "b">>, <<"a", "+", "(", "b">>,
     <<"(", "(", "a", "+", "b", ")">>, <<"a", ")">>, <<"a", "+", "b", ")">>,
     <<"(", "a", "+", "b", ")", ")">>, <<")", "a", "(">>,
     <<>>, <<" ">>, <<"a", "b">>, <<"a", " ", "b">>, <<"a", "b", "c">>,
     <<"a", "b", "+", "c">>, <<"a", "+">>, <<"(", ")">>}
\* what is written between braces: two numbers and two names
BraceTexts == {<<"-", "1">>, <<"4">>, <<"v", "_", "1">>, <<"a">>}
\* one brace-delimited token, alone or as an operand of * or /
BraceTokenInputs ==
    {l \o <<"{">> \o t \o <<"}">> \o r :
        l \in {<<>>, <<"b", "*">>, <<"0", "*">>}, t \in BraceTexts,
        r \in {<<>>, <<"/", "2">>, <<"/", "c">>}}
\* strings with the character ^
CaretInputs ==
    {<<"a", "^", "b">>, <<"a", "*", "b", "^", "c">>, <<"a", "^", "b", "*", "c">>,
     <<"a", "^", "b", "^", "c">>, <<"a", "+", "b", "^", "c">>,
     <<"(", "a", "+", "b", ")", "^", "c">>}
Inputs ==
    InfixInputs \cup UnaryInputs \cup BraceInputs \cup RepeatInputs \cup MalformedInputs
    \cup BraceTokenInputs \cup CaretInputs

(***************************************************************************)
(* Parsing: Equation::from(String) step by step, then Into<String>.        *)
(***************************************************************************)
NoSimplify ==
    /\ original = ""
    /\ passes = 0
    /\ calls = 0
    /\ first = None
    /\ start = None

NoOperation ==
    /\ op = None
    /\ res = None
    /\ opcalls = 0

NoCompare ==
    /\ other = None
    /\ verdict = None
    /\ prior = None

NoMapping ==
    /\ template = None
    /\ index = None
    /\ applied = None

Init ==
    /\ pc = "scan"
    /\ input \in Inputs
    /\ pos = 0
    /\ output = <<>>
    /\ operator_stack = <<>>
    /\ variable_buffer = <<>>
    /\ postfix = <<>>
    /\ stack = <<>>
    /\ self = None
    /\ rendered = None
    /\ variables = None
    /\ NoSimplify
    /\ NoOperation
    /\ NoCompare
    /\ NoMapping

\* one iteration of 'operator_loop
Scan ==
    /\ pc = "scan"
    /\ pos < Len(input)
    /\ LET st == ScanChar([output |-> output, operator_stack |-> operator_stack,
                           variable_buffer |-> variable_buffer, panic |-> FALSE],
                          input[pos + 1])
       IN  /\ output' = st.output
           /\ operator_stack' = st.operator_stack
           /\ variable_buffer' = st.variable_buffer
           /\ pc' = IF st.panic THEN "panic" ELSE "scan"
    /\ pos' = pos + 1
    /\ UNCHANGED <<input, postfix, stack, self, rendered, original, passes, calls,
                   first, start, op, res, opcalls,
                   variables, other, verdict, prior, template, index, applied>>

\* the end of the loop: the operators left are appended and output is returned
\* to Equation::from, which hands it to binary_tree_algorithm
EndScan ==
    /\ pc = "scan"
    /\ pos = Len(input)
    /\ output' = Drain(output, operator_stack)
    /\ postfix' = output'
    /\ pc' = "build"
    /\ UNCHANGED <<input, pos, operator_stack, variable_buffer, stack, self, rendered,
                   original, passes, calls, first, start, op, res, opcalls,
                   variables, other, verdict, prior, template, index, applied>>

\* one iteration of the for loop of binary_tree_algorithm
Build ==
    /\ pc = "build"
    /\ postfix # <<>>
    /\ stack' = BuildToken(stack, Head(postfix))
    /\ postfix' = Tail(postfix)
    /\ UNCHANGED <<pc, input, pos, output, operator_stack, variable_buffer, self,
                   rendered, original, passes, calls, first, start, op, res, opcalls,
                   variables, other, verdict, prior, template, index, applied>>

\* *(stack.pop().unwrap())
EndBuild ==
    /\ pc = "build"
    /\ postfix = <<>>
    /\ LET r == Pop(stack)
       IN  /\ self' = r[1]
           /\ stack' = r[2]
           /\ pc' = IF r[1] = None THEN "panic" ELSE "parsed"
    /\ UNCHANGED <<input, pos, output, operator_stack, variable_buffer, postfix,
                   rendered, original, passes, calls, first, start, op, res, opcalls,
                   variables, other, verdict, prior, template, index, applied>>

\* Into<String> for Equation
Render ==
    /\ pc = "parsed"
    /\ rendered' = Some(equation_repr(self[1]))
    /\ pc' = "rendered"
    /\ UNCHANGED <<input, pos, output, operator_stack, variable_buffer, postfix, stack,
                   self, original, passes, calls, first, start, op, res, opcalls,
                   variables, other, verdict, prior, template, index, applied>>

\* self.get_variables()
GetVariables ==
    /\ pc = "rendered"
    /\ variables' = Some(get_variables(self[1]))
    /\ pc' = "listed"
    /\ UNCHANGED <<input, pos, output, operator_stack, variable_buffer, postfix, stack,
                   self, rendered, original, passes, calls, first, start, op, res,
                   opcalls, other, verdict, prior, template, index, applied>>

Next == Scan \/ EndScan \/ Build \/ EndBuild \/ Render \/ GetVariables

Spec == Init /\ [][Next]_vars

(***************************************************************************)
(* C1.  The reading of an infix string by the usual grammar: * and / bind  *)
(* tighter than + and -, operators of one level associate to the left.     *)
(***************************************************************************)
RefLevel(o) == IF o \in {"*", "/"} THEN 2 ELSE 1

RECURSIVE RefAtom(_), RefExpr(_, _), RefLoop(_, _, _)
RefAtom(s) ==
    IF Head(s) = "("
    THEN LET r == RefExpr(Tail(s), 1) IN [out |-> r.out, rest |-> Tail(r.rest)]
    ELSE [out |-> <<Head(s)>>, rest |-> Tail(s)]
RefExpr(s, min) == LET a == RefAtom(s) IN RefLoop(a.out, a.rest, min)
RefLoop(lhs, rest, min) ==
    IF rest = <<>> THEN [out |-> lhs, rest |-> rest]
    ELSE IF Head(rest) \notin Operators THEN [out |-> lhs, rest |-> rest]
    ELSE IF RefLevel(Head(rest)) < min THEN [out |-> lhs, rest |-> rest]
    ELSE LET o == Head(rest)
             r == RefExpr(Tail(rest), RefLevel(o) + 1)
         IN  RefLoop(lhs \o r.out \o <<o>>, r.rest, min)

\* the postfix form of the infix string s
RefPostfix(s) == RefExpr(s, 1).out

C1_Examples ==
    /\ shunting_yard_algorithm(<<"A", "+", "B", "*", "C", "-", "D">>)
           = Some(<<"A", "B", "C", "*", "+", "D", "-">>)
    /\ shunting_yard_algorithm(<<"4", "+", "4", "*", "2", "/", "(", "1", "-", "5", ")">>)
           = Some(<<"4", "4", "2", "*", "1", "5", "-", "/", "+">>)

\* C1: for every infix input of single-character operands, + - * / and balanced
\* parentheses, the tokens shunting_yard_algorithm returns are the postfix form
\* that respects precedence and left-associativity; A+B*C-D gives A B C * + D -
\* and 4+4*2/(1-5) gives 4 4 2 * 1 5 - / +
C1_Postfix ==
    /\ (pc = "build" /\ input \in InfixInputs) => output = RefPostfix(input)
    /\ C1_Examples

\* an operator that pops two operators, one of higher and one of equal precedence
C1_Witness ==
    /\ pc = "build"
    /\ input = <<"a", "+", "b", "*", "4", "-", "c">>
    /\ output = <<"a", "b", "4", "*", "+", "c", "-">>

(***************************************************************************)
(* C2                                                                      *)
(***************************************************************************)
RECURSIVE Depths(_, _)
\* the stack depth after each token of a postfix sequence, -1 once an operator
\* found fewer than two nodes
Depths(p, d) ==
    IF p = <<>> THEN d
    ELSE IF d < 0 THEN d
    ELSE IF Head(p) \in Operators THEN (IF d < 2 THEN -1 ELSE Depths(Tail(p), d - 1))
    ELSE Depths(Tail(p), d + 1)

WellFormedPostfix(p) == Depths(p, 0) = 1

RECURSIVE PostOrder(_)
\* the roots of the nodes of e in post-order
PostOrder(e) ==
    (IF e.left = None THEN <<>> ELSE PostOrder(e.left[1]))
    \o (IF e.right = None THEN <<>> ELSE PostOrder(e.right[1]))
    \o <<e.root>>

RECURSIVE Complete(_)
\* every operator node has both children and every leaf none
Complete(e) ==
    IF e.root.kind \in {"Value", "Variable"} THEN e.left = None /\ e.right = None
    ELSE /\ e.left # None
         /\ e.right # None
         /\ Complete(e.left[1])
         /\ Complete(e.right[1])

\* the node a token stands for
TokenRoot(x) ==
    IF x \in Operators THEN OperatorOf(x)
    ELSE IF ParseF64(x) # None THEN Value(ParseF64(x)[1])
    ELSE Variable(x)

\* C2: for every well-formed postfix sequence p, binary_tree_algorithm returns a
\* tree whose operator nodes have the most recently pushed node as right child
\* and the one before as left child, so that its post-order traversal is p, with
\* numeric tokens as Value leaves and the other operands as Variable leaves
C2_PostOrder ==
    (pc = "parsed" /\ WellFormedPostfix(output)) =>
        /\ Complete(self[1])
        /\ PostOrder(self[1]) = [i \in 1..Len(output) |-> TokenRoot(output[i])]

\* (a+b)/4 built from a b + 4 /
C2_Witness ==
    /\ pc = "parsed"
    /\ output = <<"a", "b", "+", "4", "/">>
    /\ self = Some(Equation(Divide,
                            Some(Equation(Add, Some(New(Variable("a"))),
                                          Some(New(Variable("b"))))),
                            Some(New(Value(F(4))))))

(***************************************************************************)
(* C3                                                                      *)
(***************************************************************************)
\* C3: for every expression string s in which the compound operands, and only
\* they, are written in parentheses, rendering the freshly parsed tree gives s
\* back: equation_repr(Equation::from(s)) == s
C3_RoundTrip ==
    (pc = "rendered" /\ input \in FullParenInputs) => rendered = Some(Concat(input))

(***************************************************************************)
(* Simplifying: Equation::simplify on an Equation with at most MaxEqOps    *)
(* operator nodes, pass by pass, and a second call on its result.  An      *)
(* operator node may lack its left child, as the tree of -(a) does.        *)
(***************************************************************************)
EqLeaves == {Value(F(0)), Value(F(1)), Variable("a")}
EqOperators == {Add, Subtract, Multiply, Divide}

\* the shapes of the Equations with exactly k operator nodes, in prefix order:
\* N an operator node with both children, U one without its left child, L a leaf
Skeletons[k \in Nat] ==
    IF k = 0 THEN {<<"L">>}
    ELSE {<<"U">> \o r : r \in Skeletons[k - 1]}
         \cup UNION {{<<"N">> \o l \o r : l \in Skeletons[i], r \in Skeletons[k - 1 - i]}
                     : i \in 0..(k - 1)}

RECURSIVE Fill(_, _, _)
\* the Equation of the shape that starts sk, with the operators and leaves taken
\* from os and ls in order: [eq, sk, os, ls] with what is left of the three
Fill(sk, os, ls) ==
    IF Head(sk) = "L"
    THEN [eq |-> New(Head(ls)), sk |-> Tail(sk), os |-> os, ls |-> Tail(ls)]
    ELSE IF Head(sk) = "U"
    THEN LET r == Fill(Tail(sk), Tail(os), ls)
         IN  [r EXCEPT !.eq = Equation(Head(os), None, Some(r.eq))]
    ELSE LET l == Fill(Tail(sk), Tail(os), ls)
             r == Fill(l.sk, l.os, l.ls)
         IN  [r EXCEPT !.eq = Equation(Head(os), Some(l.eq), Some(r.eq))]

Count(sk, c) == Cardinality({i \in 1..Len(sk) : sk[i] = c})

InitSimplify ==
    /\ pc = "simplify"
    /\ input = <<>>
    /\ pos = 0
    /\ output = <<>>
    /\ operator_stack = <<>>
    /\ variable_buffer = <<>>
    /\ postfix = <<>>
    /\ stack = <<>>
    /\ \E sk \in UNION {Skeletons[k] : k \in 0..MaxEqOps} :
           \E os \in [1..(Len(sk) - Count(sk, "L")) -> EqOperators] :
               \E ls \in [1..Count(sk, "L") -> EqLeaves] :
                   self = Some(Fill(sk, os, ls).eq)
    /\ rendered = None
    /\ original = ""
    /\ passes = 0
    /\ calls = 0
    /\ first = None
    /\ start = self
    /\ variables = None
    /\ NoOperation
    /\ NoCompare
    /\ NoMapping

\* one body of simplify on self: the rendering is taken, the root is matched,
\* the children are simplified; the call recurses if the rendering changed and
\* returns self.clone() if not
SimplifyPass ==
    /\ pc = "simplify"
    /\ passes < MaxPasses
    /\ original' = equation_repr(self[1])
    /\ self' = Some(Pass(self[1], MaxPasses))
    /\ pc' = IF Poisoned(self'[1]) THEN "panic"
             ELSE IF original' # equation_repr(self'[1]) THEN "simplify"
             ELSE "simplified"
    /\ calls' = IF pc' = "simplified" THEN calls + 1 ELSE calls
    /\ first' = IF pc' = "simplified" /\ calls = 0 THEN self' ELSE first
    /\ passes' = passes + 1
    /\ UNCHANGED <<input, pos, output, operator_stack, variable_buffer, postfix, stack,
                   rendered, start, op, res, opcalls,
                   variables, other, verdict, prior, template, index, applied>>

\* simplify is called on the simplified Equation
SimplifyAgain ==
    /\ pc = "simplified"
    /\ calls < 2
    /\ pc' = "simplify"
    /\ passes' = 0
    /\ UNCHANGED <<input, pos, output, operator_stack, variable_buffer, postfix, stack,
                   self, rendered, original, calls, first, start, op, res, opcalls,
                   variables, other, verdict, prior, template, index, applied>>

NextSimplify == SimplifyPass \/ SimplifyAgain

SpecSimplify == InitSimplify /\ [][NextSimplify]_vars

(***************************************************************************)
(* C5                                                                      *)
(***************************************************************************)
\* C5: for every Equation on which simplify completes, simplifying the result a
\* second time changes nothing: simplify(simplify(e)) == simplify(e)
C5_Idempotent ==
    (pc = "simplified" /\ calls = 2) => EqEq(self[1], first[1])

(***************************************************************************)
(* C7                                                                      *)
(***************************************************************************)
\* e is a Value leaf, and one that holds the integer i
ValueLeaf(e) == e.root.kind = "Value"
ValueIs(e, i) == ValueLeaf(e) /\ FEq(e.root.val, F(i))

BothValues(e) ==
    e.left # None /\ e.right # None /\ ValueLeaf(e.left[1]) /\ ValueLeaf(e.right[1])
LeftIs0(e) == e.left # None /\ ValueIs(e.left[1], 0)
RightIs0(e) == e.right # None /\ ValueIs(e.right[1], 0)
LeftIs1(e) == e.left # None /\ ValueIs(e.left[1], 1)
RightIs1(e) == e.right # None /\ ValueIs(e.right[1], 1)

\* a node that one of (a) to (d) forbids
Reducible(e) ==
    \/ e.root.kind \in {"Add", "Subtract", "Multiply", "Divide"} /\ BothValues(e)
    \/ e.root.kind = "Add" /\ (LeftIs0(e) \/ RightIs0(e))
    \/ e.root.kind = "Subtract" /\ RightIs0(e)
    \/ e.root.kind = "Multiply" /\ (LeftIs0(e) \/ RightIs0(e) \/ LeftIs1(e) \/ RightIs1(e))
    \/ e.root.kind = "Divide" /\ RightIs1(e)

RECURSIVE NormalForm(_)
NormalForm(e) ==
    /\ ~Reducible(e)
    /\ e.left # None => NormalForm(e.left[1])
    /\ e.right # None => NormalForm(e.right[1])

C7_Examples ==
    /\ EqEq(simplify(FromString(<<"(", "0", "+", "1", ")", "/", "c">>)[1], MaxPasses),
            FromString(<<"1", "/", "c">>)[1])
    /\ EqEq(simplify(FromString(<<"0", "*", "{", "v", "_", "1", "}">>)[1], MaxPasses),
            FromString(<<"0">>)[1])

\* C7: after Equation::simplify on a tree whose operator nodes all have both
\* children, no node of the result is (a) an operator over two Value leaves,
\* (b) an Add with a Value(0) child or a Subtract with right child Value(0),
\* (c) a Multiply with a Value(0) or Value(1) child, (d) a Divide with right
\* child Value(1); (0+1)/c simplifies to 1/c and 0*{v_1} to 0
C7_NormalForm ==
    /\ (pc = "simplified" /\ Complete(start[1])) => NormalForm(self[1])
    /\ C7_Examples

\* (0+1)/a has been simplified to 1/a
C7_Witness ==
    /\ pc = "simplified"
    /\ start = Some(Equation(Divide,
                             Some(Equation(Add, Some(New(Value(F(0)))),
                                           Some(New(Value(F(1)))))),
                             Some(New(Variable("a")))))
    /\ self = Some(Equation(Divide, Some(New(Value(F(1)))), Some(New(Variable("a")))))

(***************************************************************************)
(* C8                                                                      *)
(***************************************************************************)
LeafToken(e) == IF e.root.kind = "Value" THEN EquationReprF64(e.root.val) ELSE e.root.name

RECURSIVE Write(_)
\* an infix string of the Equation e, every compound operand in parentheses and
\* an operator node without left child written as the operator before its operand
Write(e) ==
    LET operand(c) == IF c.left = None /\ c.right = None THEN <<LeafToken(c)>>
                      ELSE <<"(">> \o Write(c) \o <<")">>
    IN  IF e.left = None /\ e.right = None THEN <<LeafToken(e)>>
        ELSE IF e.left = None
        THEN <<RootRepr(e.root), "(">> \o Write(e.right[1]) \o <<")">>
        ELSE operand(e.left[1]) \o <<RootRepr(e.root)>> \o operand(e.right[1])

Minus(w) == <<"-", "(">> \o w \o <<")">>
BraceMinusOne(w) == <<"{", "-", "1", "}", "*", "(">> \o w \o <<")">>
MinusOne(e) == Equation(Multiply, Some(New(Value(F(-1)))), Some(e))

\* the first call of simplify has returned on a Subtract without left child
UnaryMinusDone ==
    /\ pc = "simplified"
    /\ calls = 1
    /\ start[1].root = Subtract
    /\ start[1].left = None

\* C8: for every operand expression e, -(e) parses to a Subtract node without
\* left child whose right child is the tree of e, simplify rewrites that node
\* to Multiply(Value(-1), e), and simplify(parse("-(e)")) ==
\* simplify(parse("{-1}*(e)")); e is written from the right child of start
C8_UnaryMinus ==
    UnaryMinusDone =>
        LET w == Write(start[1].right[1])
        IN  /\ FromString(Minus(w)) = Some(Equation(Subtract, None, FromString(w)))
            /\ RootRule(start[1]) = MinusOne(start[1].right[1])
            /\ FromString(Minus(w)) = start =>
                   EqEq(self[1], simplify(FromString(BraceMinusOne(w))[1], MaxPasses))

(***************************************************************************)
(* C9                                                                      *)
(***************************************************************************)
\* the first call of simplify has returned on a Subtract of a non-Value from Value(0)
ZeroMinuendDone ==
    /\ pc = "simplified"
    /\ calls = 1
    /\ start[1].root = Subtract
    /\ LeftIs0(start[1])
    /\ ~ValueLeaf(start[1].right[1])

\* C9 as stated: a Subtract node with left operand Value(0) and a right operand
\* r that is not a Value is rewritten to Multiply(Value(-1), r) and does not
\* remain a Subtract with a zero left operand
C9_ZeroMinuend ==
    ZeroMinuendDone =>
        /\ RootRule(start[1]) = MinusOne(start[1].right[1])
        /\ ~(self[1].root = Subtract /\ LeftIs0(self[1]))

\* C9, amended: the match on the root leaves the node as it is, and the result
\* is a Subtract with left operand Value(0), or one Value when the right
\* operand simplifies to a Value; Multiply(Value(-1), r) comes only from a
\* Subtract without left child
C9_ZeroMinuendKept ==
    ZeroMinuendDone =>
        /\ RootRule(start[1]) = start[1]
        /\ \/ self[1].root = Subtract /\ LeftIs0(self[1])
           \/ ValueLeaf(self[1])

\* 0-a is returned as 0-a
C9_Witness ==
    /\ ZeroMinuendDone
    /\ start[1].right = Some(New(Variable("a")))
    /\ self = start

(***************************************************************************)
(* C10                                                                     *)
(***************************************************************************)
\* C10: the loop of simplify ends, no run takes pass after pass without end,
\* and when it stops one more pass would leave the rendered string unchanged
C10_FixedPoint ==
    /\ ~(pc = "simplify" /\ passes = MaxPasses)
    /\ pc = "simplified" =>
           equation_repr(Pass(self[1], MaxPasses)) = equation_repr(self[1])

(***************************************************************************)
(* Simplifying an Operation: Operation::simplify on an Operation of depth  *)
(* at most two, and a second call on what the first call left.             *)
(***************************************************************************)
TextNames == {"x", "y"}
OpLeaves ==
    {OpValue(F(i)) : i \in 0..MaxValue} \cup {OpText(t) : t \in TextNames} \cup {OpMapping(0)}

\* the Vecs of at most two Operations of S
Lists(S) == {<<>>} \cup {<<a>> : a \in S} \cup {<<a, b>> : a \in S, b \in S}

\* the Operations over leaves
Inner ==
    OpLeaves
    \cup {OpSum(l) : l \in Lists(OpLeaves)}
    \cup {OpMultiply(l) : l \in Lists(OpLeaves)}
    \cup {OpNegate(Some(a)) : a \in OpLeaves}
    \cup {OpDivide(Some(a), Some(b)) : a \in OpLeaves, b \in OpLeaves}

InitOperation ==
    /\ pc = "operation"
    /\ input = <<>>
    /\ pos = 0
    /\ output = <<>>
    /\ operator_stack = <<>>
    /\ variable_buffer = <<>>
    /\ postfix = <<>>
    /\ stack = <<>>
    /\ self = None
    /\ rendered = None
    /\ NoSimplify
    /\ \E a \in {None} \cup {Some(x) : x \in Inner} :
           \E b \in {None} \cup {Some(x) : x \in Inner} :
               \/ (a = None => b = None) /\ op = Some(OpSum(a \o b))
               \/ (a = None => b = None) /\ op = Some(OpMultiply(a \o b))
               \/ a # None /\ b = None /\ op = Some(OpNegate(a))
               \/ a # None /\ b # None /\ op = Some(OpDivide(a, b))
    /\ res = None
    /\ opcalls = 0
    /\ variables = None
    /\ NoCompare
    /\ NoMapping

\* op.simplify() is called
OperationSimplify ==
    /\ pc = "operation"
    /\ res' = operation_simplify(op[1])
    /\ opcalls' = opcalls + 1
    /\ pc' = IF res' = Some(OpPanic) THEN "oppanic" ELSE "returned"
    /\ UNCHANGED <<input, pos, output, operator_stack, variable_buffer, postfix, stack,
                   self, rendered, original, passes, calls, first, start, op,
                   variables, other, verdict, prior, template, index, applied>>

\* the caller goes on with the result when it is Some and with op when it is None
OperationAgain ==
    /\ pc = "returned"
    /\ opcalls < 2
    /\ op' = IF res = None THEN op ELSE res
    /\ res' = None
    /\ pc' = "operation"
    /\ UNCHANGED <<input, pos, output, operator_stack, variable_buffer, postfix, stack,
                   self, rendered, original, passes, calls, first, start, opcalls,
                   variables, other, verdict, prior, template, index, applied>>

NextOperation == OperationSimplify \/ OperationAgain

SpecOperation == InitOperation /\ [][NextOperation]_vars

(***************************************************************************)
(* C4                                                                      *)
(***************************************************************************)
RECURSIVE TextCount(_, _)
\* how many leaves Text(t) the Operation e has
TextCount(e, t) ==
    LET RECURSIVE InList(_)
        InList(l) == IF l = <<>> THEN 0 ELSE TextCount(Head(l), t) + InList(Tail(l))
    IN  CASE e.kind = "Text" -> IF e.text = t THEN 1 ELSE 0
          [] e.kind \in {"Multiply", "Sum"} -> InList(e.list)
          [] e.kind = "Negate" -> InList(e.a)
          [] e.kind \in {"Divide", "Equal"} -> InList(e.a) + InList(e.b)
          [] OTHER -> 0

\* C4: whenever e.simplify() returns Some(r), r is semantically equal to e:
\* symbolic children are passed through and never folded into a number, so the
\* multiset of Text leaves of r equals the multiset of Text leaves of e
C4_TextLeavesKept ==
    (pc = "returned" /\ opcalls = 1 /\ res # None) =>
        \A t \in TextNames : TextCount(res[1], t) = TextCount(op[1], t)

(***************************************************************************)
(* C6                                                                      *)
(***************************************************************************)
RECURSIVE OpHasNaN(_)
OpHasNaN(e) ==
    LET any(l) == \E i \in 1..Len(l) : OpHasNaN(l[i])
    IN  CASE e.kind = "Value" -> IsNaN(e.val)
          [] e.kind \in {"Multiply", "Sum"} -> any(e.list)
          [] e.kind = "Negate" -> any(e.a)
          [] e.kind \in {"Divide", "Equal"} -> any(e.a) \/ any(e.b)
          [] OTHER -> FALSE

\* C6: with s(e) the result of e.simplify() when it is Some and e itself when
\* it is None, s(s(e)) == s(e) under Operation equality; stated of the s(e)
\* that hold no NaN, which == equals to nothing
C6_Idempotent ==
    (pc = "returned" /\ opcalls = 2 /\ ~OpHasNaN(op[1])) =>
        operation_eq(IF res = None THEN op[1] ELSE res[1], op[1])

(***************************************************************************)
(* Expanding: expand on an Operation, then on the same Operation inside a  *)
(* Negate.  The Operations are those of depth at most two, a Divide of a   *)
(* Sum of two or three terms, and a Divide of a Sum of two compound parts, *)
(* each as it is and inside a Negate.                                      *)
(***************************************************************************)
\* a leaf or a Negate directly over a leaf
Terms == OpLeaves \cup {OpNegate(Some(a)) : a \in OpLeaves}

\* sub-expressions with several leaves, and two leaves
Parts ==
    {OpText("x"), OpValue(F(1)),
     OpMultiply(<<OpText("x"), OpText("y")>>),
     OpSum(<<OpText("x"), OpValue(F(1))>>),
     OpDivide(Some(OpText("y")), Some(OpValue(F(1)))),
     OpNegate(Some(OpMultiply(<<OpValue(F(1)), OpText("y")>>)))}

Wrapped(neg, e) == IF neg THEN OpNegate(Some(e)) ELSE e

InitExpand ==
    /\ pc = "expand"
    /\ input = <<>>
    /\ pos = 0
    /\ output = <<>>
    /\ operator_stack = <<>>
    /\ variable_buffer = <<>>
    /\ postfix = <<>>
    /\ stack = <<>>
    /\ self = None
    /\ rendered = None
    /\ variables = None
    /\ NoSimplify
    /\ \E neg \in BOOLEAN :
           \/ \E a \in {None} \cup {Some(x) : x \in Inner} :
                  \E b \in {None} \cup {Some(x) : x \in Inner} :
                      \/ (a = None => b = None) /\ op = Some(Wrapped(neg, OpSum(a \o b)))
                      \/ (a = None => b = None) /\ op = Some(Wrapped(neg, OpMultiply(a \o b)))
                      \/ a # None /\ b = None /\ op = Some(Wrapped(neg, a[1]))
                      \/ a # None /\ b # None /\ op = Some(Wrapped(neg, OpDivide(a, b)))
           \/ \E t0 \in Terms, t1 \in Terms, d \in Terms :
                  \E t2 \in {None} \cup {Some(x) : x \in Terms} :
                      op = Some(Wrapped(neg, OpDivide(Some(OpSum(<<t0, t1>> \o t2)), Some(d))))
           \/ \E t0 \in Parts, t1 \in Parts, d \in Parts :
                  op = Some(Wrapped(neg, OpDivide(Some(OpSum(<<t0, t1>>)), Some(d))))
    /\ res = None
    /\ opcalls = 0
    /\ NoCompare
    /\ NoMapping

\* expand(op)
Expand ==
    /\ pc = "expand"
    /\ prior' = Some(expand(op[1]))
    /\ pc' = "expanded"
    /\ UNCHANGED <<input, pos, output, operator_stack, variable_buffer, postfix, stack,
                   self, rendered, original, passes, calls, first, start, op, res,
                   opcalls, variables, other, verdict, template, index, applied>>

\* expand(Negate(Some(op)))
ExpandNegated ==
    /\ pc = "expanded"
    /\ res' = Some(expand(OpNegate(op)))
    /\ pc' = "negated"
    /\ UNCHANGED <<input, pos, output, operator_stack, variable_buffer, postfix, stack,
                   self, rendered, original, passes, calls, first, start, op,
                   opcalls, variables, other, verdict, prior, template, index, applied>>

NextExpand == Expand \/ ExpandNegated

SpecExpand == InitExpand /\ [][NextExpand]_vars

(***************************************************************************)
(* C11                                                                     *)
(***************************************************************************)
IsTerm(t) ==
    \/ t.kind \in {"Value", "Text", "Mapping"}
    \/ t.kind = "Negate" /\ t.a # None /\ t.a[1].kind \in {"Value", "Text", "Mapping"}

\* e is Divide(Sum[t0, .., t(n-1)], d)
DivideOfSum(e) ==
    /\ e.kind = "Divide" /\ e.a # None /\ e.b # None
    /\ e.a[1].kind = "Sum"

\* Sum[Divide(t0, d), .., Divide(t(n-1), d)] for e = Divide(Sum[t0, .., t(n-1)], d)
Distributed(e) ==
    OpSum([i \in 1..Len(e.a[1].list) |-> OpDivide(Some(e.a[1].list[i]), e.b)])

\* op is a Divide of a Sum of two or three terms by a term, and expand has returned
SumOfTermsExpanded ==
    /\ pc \in {"expanded", "negated"}
    /\ DivideOfSum(op[1])
    /\ Len(op[1].a[1].list) \in {2, 3}
    /\ \A i \in 1..Len(op[1].a[1].list) : IsTerm(op[1].a[1].list[i])
    /\ IsTerm(op[1].b[1])

\* C11: for n in {2, 3} and terms t0..t(n-1) and d that are leaves (Value, Text,
\* Mapping) or a Negate directly over a leaf, expand(Divide(Sum[t0..t(n-1)], d))
\* returns Ok(Sum[Divide(t0, d), .., Divide(t(n-1), d)]), the terms in their order
C11_DivideOverSum ==
    SumOfTermsExpanded => prior = Some(Ok(Distributed(op[1])))

\* (x + -y + 1)/Map(0) has been expanded
C11_Witness ==
    /\ pc = "expanded"
    /\ op = Some(OpDivide(Some(OpSum(<<OpText("x"), OpNegate(Some(OpText("y"))),
                                       OpValue(F(1))>>)),
                          Some(OpMapping(0))))
    /\ prior = Some(Ok(OpSum(<<OpDivide(Some(OpText("x")), Some(OpMapping(0))),
                               OpDivide(Some(OpNegate(Some(OpText("y")))), Some(OpMapping(0))),
                               OpDivide(Some(OpValue(F(1))), Some(OpMapping(0)))>>)))

(***************************************************************************)
(* C12                                                                     *)
(***************************************************************************)
RECURSIVE OpComplete(_)
\* no child of e is absent
OpComplete(e) ==
    LET all(l) == \A i \in 1..Len(l) : OpComplete(l[i])
    IN  CASE e.kind \in {"Multiply", "Sum"} -> all(e.list)
          [] e.kind = "Negate" -> e.a # None /\ all(e.a)
          [] e.kind \in {"Divide", "Equal"} -> e.a # None /\ e.b # None /\ all(e.a) /\ all(e.b)
          [] OTHER -> TRUE

\* C12: each wildcard is bound to the whole sub-expression it matched: for
\* complete sub-expressions t0, t1 and d, expand(Divide(Sum[t0, t1], d)) returns
\* Ok(Sum[Divide(t0, d), Divide(t1, d)])
C12_WholeSubExpression ==
    (/\ pc \in {"expanded", "negated"}
     /\ DivideOfSum(op[1])
     /\ Len(op[1].a[1].list) = 2
     /\ OpComplete(op[1])) =>
        /\ prior[1].ok
        /\ operation_eq(prior[1].val, Distributed(op[1]))

(***************************************************************************)
(* C13                                                                     *)
(***************************************************************************)
\* e matches the pattern of no rule of the table
NoRule(e) == \A i \in 1..Len(expansions) : ~compare_structure(e, expansions[i][1])

\* C13: for every input that structurally matches no rule of the table, expand
\* returns Err(e) with e equal to the unchanged input
C13_ErrUnchanged ==
    (pc \in {"expanded", "negated"} /\ NoRule(op[1])) =>
        /\ ~prior[1].ok
        /\ operation_eq(prior[1].val, op[1])

(***************************************************************************)
(* C14                                                                     *)
(***************************************************************************)
\* C14: a Negate around the whole input is transparent to expansion: for every
\* e with expand(e) == Ok(r), expand(Negate(e)) == Ok(Negate(r))
C14_NegateTransparent ==
    (pc = "negated" /\ prior[1].ok) =>
        /\ res[1].ok
        /\ operation_eq(res[1].val, OpNegate(Some(prior[1].val)))

(***************************************************************************)
(* Comparing: a == b and a.compare_structure(b) on two leaves, on two Sums  *)
(* or two Multiplys of at most three children, and on two Operations over  *)
(* leaves, each as it is or inside a Negate.                               *)
(***************************************************************************)
\* an EquationMember behind the Rc of a Variable
Member == [repr |-> "v", value |-> F(1)]

\* the leaves compared: those of OpLeaves and a Variable
CompareLeaves == OpLeaves \cup {OpVariable(Member)}

\* the children of the lists compared
Children ==
    {OpText("x"), OpText("y"), OpValue(F(1)), OpSum(<<OpText("x"), OpText("y")>>),
     OpSum(<<OpText("y"), OpText("x")>>)}

\* the Operations over leaves, a Variable, and a Negate and a Divide that lack
\* a child
Shallow ==
    Inner \cup {OpVariable(Member), OpNegate(None), OpDivide(None, Some(OpText("x")))}

InitCompare ==
    /\ pc = "compare"
    /\ input = <<>>
    /\ pos = 0
    /\ output = <<>>
    /\ operator_stack = <<>>
    /\ variable_buffer = <<>>
    /\ postfix = <<>>
    /\ stack = <<>>
    /\ self = None
    /\ rendered = None
    /\ variables = None
    /\ NoSimplify
    /\ \/ \E a \in CompareLeaves, b \in CompareLeaves : op = Some(a) /\ other = Some(b)
       \/ \E a \in Shallow, b \in Shallow, na \in BOOLEAN, nb \in BOOLEAN :
              op = Some(Wrapped(na, a)) /\ other = Some(Wrapped(nb, b))
       \/ \E a0 \in {None} \cup {Some(x) : x \in Children} :
          \E a1 \in {None} \cup {Some(x) : x \in Children} :
          \E a2 \in {None} \cup {Some(x) : x \in Children} :
          \E b0 \in {None} \cup {Some(x) : x \in Children} :
          \E b1 \in {None} \cup {Some(x) : x \in Children} :
          \E b2 \in {None} \cup {Some(x) : x \in Children} :
              /\ (a0 = None => a1 = None) /\ (a1 = None => a2 = None)
              /\ (b0 = None => b1 = None) /\ (b1 = None => b2 = None)
              /\ \/ op = Some(OpSum(a0 \o a1 \o a2)) /\ other = Some(OpSum(b0 \o b1 \o b2))
                 \/ /\ op = Some(OpMultiply(a0 \o a1 \o a2))
                    /\ other = Some(OpMultiply(b0 \o b1 \o b2))
    /\ res = None
    /\ opcalls = 0
    /\ verdict = None
    /\ prior = None
    /\ NoMapping

\* op == other and op.compare_structure(&other), then the same two calls with
\* op and other exchanged
Compare ==
    /\ pc = "compare"
    /\ verdict' = Some([eq |-> operation_eq(op[1], other[1]),
                        structure |-> compare_structure(op[1], other[1]),
                        eq_swapped |-> operation_eq(other[1], op[1]),
                        structure_swapped |-> compare_structure(other[1], op[1])])
    /\ pc' = "compared"
    /\ UNCHANGED <<input, pos, output, operator_stack, variable_buffer, postfix, stack,
                   self, rendered, original, passes, calls, first, start, op, res,
                   opcalls, variables, other, prior, template, index, applied>>

NextCompare == Compare

SpecCompare == InitCompare /\ [][NextCompare]_vars

(***************************************************************************)
(* C15                                                                     *)
(***************************************************************************)
RECURSIVE SameOperation(_, _)
\* equality as the claim states it: leaves by their contents, Negate and
\* Divide child by child, the lists of two Sums or of two Multiplys by a
\* one-to-one pairing of equal children
SameOperation(x, y) ==
    IF x.kind # y.kind THEN FALSE
    ELSE CASE x.kind = "Value" -> FEq(x.val, y.val)
           [] x.kind = "Text" -> x.text = y.text
           [] x.kind = "Mapping" -> x.idx = y.idx
           [] x.kind = "Negate" ->
                  IF x.a = None \/ y.a = None THEN x.a = y.a
                  ELSE SameOperation(x.a[1], y.a[1])
           [] x.kind = "Divide" ->
                  /\ IF x.a = None \/ y.a = None THEN x.a = y.a
                     ELSE SameOperation(x.a[1], y.a[1])
                  /\ IF x.b = None \/ y.b = None THEN x.b = y.b
                     ELSE SameOperation(x.b[1], y.b[1])
           [] x.kind \in {"Multiply", "Sum"} ->
                  /\ Len(x.list) = Len(y.list)
                  /\ \E p \in Permutations(1..Len(x.list)) :
                         \A i \in 1..Len(x.list) : SameOperation(x.list[i], y.list[p[i]])
           [] OTHER -> FALSE

\* C15: a == b of two Sums, and of two Multiplys, holds exactly when the
\* lists have the same length and there is a one-to-one pairing of equal
\* children, whatever the order (Sum[x, x, y] and Sum[x, y, y] are not equal)
C15_MultisetEquality ==
    (pc = "compared" /\ op[1].kind \in {"Sum", "Multiply"}) =>
        (verdict[1].eq <=> SameOperation(op[1], other[1]))

(***************************************************************************)
(* C16                                                                     *)
(***************************************************************************)
\* C16: any two leaves of kinds Value, Text, Mapping or Variable match in
\* structure whatever they hold, and are not == when their kinds differ
C16_LeavesInterchangeable ==
    (pc = "compared" /\ op[1].kind \in LeafKinds /\ other[1].kind \in LeafKinds) =>
        /\ verdict[1].structure
        /\ op[1].kind # other[1].kind => ~verdict[1].eq

(***************************************************************************)
(* C17                                                                     *)
(***************************************************************************)
\* the characters of a string without braces that are names
IsName(c) == c \notin Operators \cup {"(", ")", " "} /\ ParseF64(c) = None

RECURSIVE FirstOccurrences(_)
\* q without the repetitions of an earlier entry
FirstOccurrences(q) ==
    IF q = <<>> THEN <<>>
    ELSE LET d == FirstOccurrences(Front(q))
         IN  IF \E i \in 1..Len(d) : d[i] = Last(q) THEN d ELSE Append(d, Last(q))

\* C17: get_variables on a parsed expression returns the variable names from
\* left to right with no duplicates: each name once, at the position of its
\* first occurrence ((a+b)/c gives a, b, c; a name used twice is listed once)
C17_NamesOnce ==
    (pc = "listed" /\ input \in InfixInputs \cup RepeatInputs) =>
        variables = Some(FirstOccurrences(SelectSeq(input, IsName)))

(***************************************************************************)
(* C18                                                                     *)
(***************************************************************************)
RECURSIVE ParenDepth(_, _)
\* how many '(' of s are open at its end, -1 once a ')' had no '(' to close
ParenDepth(s, d) ==
    IF s = <<>> THEN d
    ELSE IF Head(s) = "(" THEN ParenDepth(Tail(s), d + 1)
    ELSE IF Head(s) = ")" THEN (IF d = 0 THEN -1 ELSE ParenDepth(Tail(s), d - 1))
    ELSE ParenDepth(Tail(s), d)

\* C18: shunting_yard_algorithm returns tokens only for an input whose
\* parentheses match (no ')' without its '(' and no '(' left open), and the
\* tokens it returns never hold a '(' or a ')'
C18_MismatchReported ==
    pc = "build" =>
        /\ ParenDepth(input, 0) = 0
        /\ \A i \in 1..Len(output) : output[i] \notin {"(", ")"}

(***************************************************************************)
(* C19                                                                     *)
(***************************************************************************)
\* C19: binary_tree_algorithm returns a tree only when the node it pops after
\* the last token was the only one on its stack; no node or several nodes are
\* a failure
C19_ExactlyOneNode == pc = "parsed" => stack = <<>>

(***************************************************************************)
(* C20                                                                     *)
(***************************************************************************)
HasBrace(s) == \E i \in 1..Len(s) : s[i] = "{"
BraceOpen(s) == CHOOSE i \in 1..Len(s) : s[i] = "{"
BraceShut(s) == CHOOSE i \in 1..Len(s) : s[i] = "}"

\* what is written between the braces of s
BraceText(s) == Concat(SubSeq(s, BraceOpen(s) + 1, BraceShut(s) - 1))

\* s with its brace-delimited token read as the one operand tok
WithToken(s, tok) ==
    SubSeq(s, 1, BraceOpen(s) - 1) \o <<tok>> \o SubSeq(s, BraceShut(s) + 1, Len(s))

\* C20: for every input with a brace-delimited token {t}, the tokenizer emits
\* one token for it, equal to t without its braces, when t is a number
\* ({-1} gives -1) as when t is a name ({v_1} gives v_1)
C20_BracesStripped ==
    (pc = "build" /\ HasBrace(input)) =>
        output = RefPostfix(WithToken(input, BraceText(input)))

\* C20, amended: the tokenizer emits one token for {t}, which is t without
\* its braces when t parses as a number ({-1} gives -1) and {t} with its
\* braces when it does not ({v_1} gives {v_1})
C20_BracesKeptOnNames ==
    (pc = "build" /\ HasBrace(input)) =>
        output = RefPostfix(WithToken(input,
                     IF ParseF64(BraceText(input)) # None THEN BraceText(input)
                     ELSE "{" \o BraceText(input) \o "}"))

\* {v_1}/2 is tokenized
C20_Witness ==
    /\ pc = "build"
    /\ input = <<"{", "v", "_", "1", "}", "/", "2">>
    /\ output = <<"{v_1}", "2", "/">>

(***************************************************************************)
(* C21                                                                     *)
(***************************************************************************)
\* the postfix form of the strings of CaretInputs when ^ is a binary operator
\* that binds tighter than * and / and associates to the left
CaretPostfix(s) ==
    CASE s = <<"a", "^", "b">> -> <<"a", "b", "^">>
      [] s = <<"a", "*", "b", "^", "c">> -> <<"a", "b", "c", "^", "*">>
      [] s = <<"a", "^", "b", "*", "c">> -> <<"a", "b", "^", "c", "*">>
      [] s = <<"a", "^", "b", "^", "c">> -> <<"a", "b", "^", "c", "^">>
      [] s = <<"a", "+", "b", "^", "c">> -> <<"a", "b", "c", "^", "+">>
      [] s = <<"(", "a", "+", "b", ")", "^", "c">> -> <<"a", "b", "+", "c", "^">>

\* C21: ^ is tokenized as a binary operator of precedence 3: it pops the
\* operators of higher or equal precedence to the output and is pushed on the
\* operator stack, so a^b gives a b ^ and a*b^c gives a b c ^ *
C21_CaretOperator ==
    (pc = "build" /\ input \in CaretInputs) => output = CaretPostfix(input)

(***************************************************************************)
(* C22                                                                     *)
(***************************************************************************)
\* the assertions of test_compare_structure
C22_Examples ==
    LET x == OpText("x")
        y == OpText("y")
        z == OpText("z")
        two == OpDivide(Some(OpSum(<<OpMapping(0), OpMapping(1)>>)), Some(OpMapping(2)))
        three == OpDivide(Some(OpSum(<<OpMapping(0), OpMapping(1), OpMapping(2)>>)),
                          Some(OpMapping(3)))
    IN  /\ compare_structure(two, two)
        /\ compare_structure(two, OpDivide(Some(OpSum(<<x, y>>)), Some(z)))
        /\ compare_structure(two, OpDivide(Some(OpSum(<<x, y>>)), Some(OpValue(F(1)))))
        /\ ~compare_structure(two, OpDivide(Some(OpMultiply(<<x, y>>)), Some(OpValue(F(2)))))
        /\ ~compare_structure(OpMultiply(<<x, y>>), OpMultiply(<<x, y, z>>))
        /\ ~compare_structure(OpNegate(Some(OpDivide(Some(x), Some(y)))), two)
        /\ compare_structure(OpDivide(Some(OpSum(<<OpNegate(Some(x)), OpNegate(Some(y)),
                                                   OpNegate(Some(z))>>)),
                                      Some(OpValue(F(8)))), three)

\* C22: compare_structure is symmetric, a.compare_structure(b) equals
\* b.compare_structure(a) for all Operations a and b, with a Negate or a
\* Mapping on either side, and a comparison of which one side is a Mapping
\* leaf is true
C22_Symmetric ==
    /\ pc = "compared" =>
           /\ verdict[1].structure = verdict[1].structure_swapped
           /\ (op[1].kind = "Mapping" \/ other[1].kind = "Mapping") => verdict[1].structure
    /\ C22_Examples

\* a Negate over a Sum was compared with a Mapping, in both directions
C22_Witness ==
    /\ pc = "compared"
    /\ op = Some(OpNegate(Some(OpSum(<<OpText("x"), OpValue(F(1))>>))))
    /\ other = Some(OpMapping(0))
    /\ verdict[1].structure
    /\ verdict[1].structure_swapped

(***************************************************************************)
(* C28                                                                     *)
(***************************************************************************)
RECURSIVE HasVariable(_)
HasVariable(e) ==
    LET any(l) == \E i \in 1..Len(l) : HasVariable(l[i])
    IN  CASE e.kind = "Variable" -> TRUE
          [] e.kind \in {"Multiply", "Sum"} -> any(e.list)
          [] e.kind = "Negate" -> any(e.a)
          [] e.kind \in {"Divide", "Equal"} -> any(e.a) \/ any(e.b)
          [] OTHER -> FALSE

\* C28: == on Operation is symmetric: for all a and b built from Value, Text,
\* Mapping, Negate, Divide, Sum and Multiply, a == b holds if and only if
\* b == a holds
C28_EqSymmetric ==
    (pc = "compared" /\ ~HasVariable(op[1]) /\ ~HasVariable(other[1])) =>
        verdict[1].eq = verdict[1].eq_swapped

(***************************************************************************)
(* Indexing and substituting: create_mapping_index on an Operation, then   *)
(* apply_mapping on a template with the index as its mappings, the two     *)
(* calls map makes.                                                        *)
(***************************************************************************)
\* sub-expressions of the Operations indexed
Pieces == Parts \cup {OpVariable(Member), OpNegate(Some(OpNegate(Some(OpText("x")))))}

\* the replacements of the two rules, and templates with a Mapping under a
\* Negate, inside an Equal, out of the range of a short index, and beside
\* other leaves
Templates ==
    {expansions[1][2], expansions[2][2],
     OpMapping(0), OpMapping(3),
     OpNegate(Some(OpMapping(0))),
     OpSum(<<OpMapping(1), OpNegate(Some(OpMapping(0)))>>),
     OpEqual(Some(OpMapping(0)), Some(OpMultiply(<<OpMapping(1), OpMapping(0)>>))),
     OpMultiply(<<OpMapping(0), OpMapping(5)>>),
     OpDivide(Some(OpNegate(Some(OpSum(<<OpMapping(0), OpMapping(1)>>)))),
              Some(OpMapping(2))),
     OpText("x"),
     OpSum(<<OpValue(F(1)), OpMapping(0)>>),
     OpNegate(Some(OpText("x")))}

InitMapping ==
    /\ pc = "map"
    /\ input = <<>>
    /\ pos = 0
    /\ output = <<>>
    /\ operator_stack = <<>>
    /\ variable_buffer = <<>>
    /\ postfix = <<>>
    /\ stack = <<>>
    /\ self = None
    /\ rendered = None
    /\ variables = None
    /\ NoSimplify
    /\ \/ \E a \in Shallow : op = Some(a)
       \/ \E t0 \in Terms, t1 \in Terms, d \in Terms :
              op = Some(OpDivide(Some(OpSum(<<t0, t1>>)), Some(d)))
       \/ \E a \in Pieces, b \in Pieces :
              \/ op = Some(OpEqual(Some(a), Some(b)))
              \/ op = Some(OpSum(<<a, OpNegate(Some(b))>>))
              \/ op = Some(OpNegate(Some(OpMultiply(<<a, b>>))))
    /\ res = None
    /\ opcalls = 0
    /\ NoCompare
    /\ template \in {Some(t) : t \in Templates}
    /\ index = None
    /\ applied = None

\* create_mapping_index(op)
CreateMappingIndex ==
    /\ pc = "map"
    /\ index' = Some(create_mapping_index(op[1]))
    /\ pc' = "indexed"
    /\ UNCHANGED <<input, pos, output, operator_stack, variable_buffer, postfix, stack,
                   self, rendered, original, passes, calls, first, start, op, res,
                   opcalls, variables, other, verdict, prior, template, applied>>

\* apply_mapping(&mut template, index)
ApplyMapping ==
    /\ pc = "indexed"
    /\ applied' = Some(apply_mapping(template[1], index[1]))
    /\ pc' = "applied"
    /\ UNCHANGED <<input, pos, output, operator_stack, variable_buffer, postfix, stack,
                   self, rendered, original, passes, calls, first, start, op, res,
                   opcalls, variables, other, verdict, prior, template, index>>

NextMapping == CreateMappingIndex \/ ApplyMapping

SpecMapping == InitMapping /\ [][NextMapping]_vars

(***************************************************************************)
(* C23                                                                     *)
(***************************************************************************)
OperatorKinds == {"Multiply", "Negate", "Divide", "Sum", "Equal"}

RECURSIVE LeavesOf(_)
\* the leaves of e from left to right: the children of a list in list order,
\* the numerator before the denominator, the left side of an Equal before
\* the right
LeavesOf(e) ==
    LET RECURSIVE InList(_)
        InList(l) == IF l = <<>> THEN <<>> ELSE LeavesOf(Head(l)) \o InList(Tail(l))
    IN  CASE e.kind \in {"Multiply", "Sum"} -> InList(e.list)
          [] e.kind = "Negate" -> InList(e.a)
          [] e.kind \in {"Divide", "Equal"} -> InList(e.a) \o InList(e.b)
          [] OTHER -> <<e>>

RECURSIVE NegatedLeaves(_)
\* how many Negate nodes of e have a leaf as their child
NegatedLeaves(e) ==
    LET RECURSIVE InList(_)
        InList(l) == IF l = <<>> THEN 0 ELSE NegatedLeaves(Head(l)) + InList(Tail(l))
    IN  CASE e.kind \in {"Multiply", "Sum"} -> InList(e.list)
          [] e.kind = "Negate" ->
                 IF e.a # None /\ e.a[1].kind \notin OperatorKinds THEN 1 ELSE InList(e.a)
          [] e.kind \in {"Divide", "Equal"} -> InList(e.a) + InList(e.b)
          [] OTHER -> 0

\* the leaf of an entry of the index
EntryLeaf(x) == IF x.kind = "Negate" THEN x.a[1] ELSE x

\* the assertions of test_create_mapping_index
C23_Examples ==
    LET x == OpText("x")
        y == OpText("y")
    IN  /\ create_mapping_index(expansions[1][1]) = <<OpMapping(0), OpMapping(1), OpMapping(2)>>
        /\ create_mapping_index(OpDivide(Some(OpSum(<<x, y>>)), Some(OpText("z"))))
               = <<x, y, OpText("z")>>
        /\ create_mapping_index(OpDivide(Some(OpSum(<<x, y>>)), Some(OpValue(F(1)))))
               = <<x, y, OpValue(F(1))>>
        /\ create_mapping_index(OpMultiply(<<x, y>>)) = <<x, y>>

\* C23: on a complete expression create_mapping_index returns its leaves in
\* left-to-right order, one entry for each leaf, a Negate that directly wraps
\* a leaf being kept with its leaf as one entry
C23_LeavesInOrder ==
    /\ (pc \in {"indexed", "applied"} /\ OpComplete(op[1])) =>
           /\ Len(index[1]) = Len(LeavesOf(op[1]))
           /\ \A i \in 1..Len(index[1]) :
                  /\ index[1][i].kind \notin OperatorKinds \ {"Negate"}
                  /\ index[1][i].kind = "Negate" =>
                         index[1][i].a # None /\ index[1][i].a[1].kind \notin OperatorKinds
           /\ [i \in 1..Len(index[1]) |-> EntryLeaf(index[1][i])] = LeavesOf(op[1])
           /\ Cardinality({i \in 1..Len(index[1]) : index[1][i].kind = "Negate"})
                  = NegatedLeaves(op[1])
    /\ C23_Examples

\* the Divide of the Sum of -x and 1 by a Mapping is indexed
C23_Witness ==
    /\ pc = "indexed"
    /\ op = Some(OpDivide(Some(OpSum(<<OpNegate(Some(OpText("x"))), OpValue(F(1))>>)),
                          Some(OpMapping(0))))
    /\ index = Some(<<OpNegate(Some(OpText("x"))), OpValue(F(1)), OpMapping(0)>>)

(***************************************************************************)
(* C24                                                                     *)
(***************************************************************************)
RECURSIVE Substituted(_, _)
\* the template t rebuilt through Sum, Multiply, Negate, Divide and Equal with
\* every Mapping(i) replaced by m[i], counted from 0, and by Value(0) when m
\* has no such entry
Substituted(t, m) ==
    LET opt(a) == IF a = None THEN None ELSE Some(Substituted(a[1], m))
    IN  CASE t.kind \in {"Multiply", "Sum"} ->
                 [t EXCEPT !.list = [i \in 1..Len(t.list) |-> Substituted(t.list[i], m)]]
          [] t.kind = "Negate" -> [t EXCEPT !.a = opt(t.a)]
          [] t.kind \in {"Divide", "Equal"} -> [t EXCEPT !.a = opt(t.a), !.b = opt(t.b)]
          [] t.kind = "Mapping" -> IF t.idx < Len(m) THEN m[t.idx + 1] ELSE OpValue(F(0))
          [] OTHER -> t

\* every leaf of t is a Mapping
AllMapping(t) == \A i \in 1..Len(LeavesOf(t)) : LeavesOf(t)[i].kind = "Mapping"

\* every Mapping of t has an entry in a list of n entries
InRange(t, n) ==
    \A i \in 1..Len(LeavesOf(t)) : LeavesOf(t)[i].kind = "Mapping" => LeavesOf(t)[i].idx < n

\* C24: apply_mapping(template, m) rebuilds the template through Sum,
\* Multiply, Negate, Divide and Equal and replaces every Mapping(i) with
\* i < len(m), at any depth and directly under a Negate too, by m[i], the
\* operators above the leaves being kept
C24_EveryMappingReplaced ==
    (pc = "applied" /\ AllMapping(template[1]) /\ InRange(template[1], Len(index[1]))) =>
        applied = Some(Substituted(template[1], index[1]))

(***************************************************************************)
(* C25                                                                     *)
(***************************************************************************)
RECURSIVE HasNegate(_)
HasNegate(e) ==
    LET any(l) == \E i \in 1..Len(l) : HasNegate(l[i])
    IN  CASE e.kind = "Negate" -> TRUE
          [] e.kind \in {"Multiply", "Sum"} -> any(e.list)
          [] e.kind \in {"Divide", "Equal"} -> any(e.a) \/ any(e.b)
          [] OTHER -> FALSE

\* C25: a Mapping(i) whose index is out of the range of the mapping list,
\* i >= len(m), is replaced by Value(0) and apply_mapping does not fail: the
\* result never keeps that Mapping(i).  Stated of the templates that have no
\* Negate, whose leaves are all Mappings
C25_OutOfRangeIsZero ==
    (/\ pc = "applied"
     /\ AllMapping(template[1])
     /\ ~HasNegate(template[1])
     /\ ~InRange(template[1], Len(index[1]))) =>
        applied = Some(Substituted(template[1], index[1]))

(***************************************************************************)
(* C29                                                                     *)
(***************************************************************************)
\* e has a Mapping leaf
HasMapping(e) == \E i \in 1..Len(LeavesOf(e)) : LeavesOf(e)[i].kind = "Mapping"

\* C29: for every input without a Mapping leaf, the expression that the
\* result of expand carries, Ok or Err, has no Mapping leaf, also when a list
\* of the input is empty or the input has fewer leaves than the rule has
\* wildcards
C29_NoWildcardLeft ==
    (pc \in {"expanded", "negated"} /\ ~HasMapping(op[1])) => ~HasMapping(prior[1].val)

(***************************************************************************)
(* C26                                                                     *)
(***************************************************************************)
\* every child of the list is a Value leaf
AllValues(list) == \A i \in 1..Len(list) : list[i].kind = "Value"

\* no child of the list has children of its own
AllLeaves(list) == \A i \in 1..Len(list) : list[i].kind \notin OperatorKinds

RECURSIVE ValueTotal(_)
\* the sum of the Value leaves of the list
ValueTotal(list) ==
    IF list = <<>> THEN F(0)
    ELSE IF Last(list).kind = "Value" THEN FAdd(ValueTotal(Front(list)), Last(list).val)
    ELSE ValueTotal(Front(list))

\* C26: for every Sum s, s.simplify() returns Some(r): r is never a Sum of
\* fewer than two terms (one remaining term is returned itself), r is the
\* single Value of the total when all the children are Values, a total of
\* zero included, and when the children are leaves r holds the total of the
\* Values only if it is not zero.  Stated of the Sums that have a child
C26_SumResult ==
    (pc = "returned" /\ opcalls = 1 /\ op[1].kind = "Sum" /\ op[1].list # <<>>) =>
        /\ res # None
        /\ res[1].kind = "Sum" => Len(res[1].list) >= 2
        /\ AllValues(op[1].list) =>
               res[1].kind = "Value" /\ FEq(res[1].val, ValueTotal(op[1].list))
        /\ (AllLeaves(op[1].list) /\ res[1].kind = "Sum") =>
               \A i \in 1..Len(res[1].list) :
                   res[1].list[i].kind = "Value" => ~FEq(res[1].list[i].val, F(0))

(***************************************************************************)
(* C27                                                                     *)
(***************************************************************************)
\* e, or what e.simplify() returns when it is Some
Simplified(e) == IF operation_simplify(e) = None THEN e ELSE operation_simplify(e)[1]

RECURSIVE Symbolic(_)
\* e has no Value leaf, no Sum, no Multiply, no Negate directly over a Negate
\* and no absent child
Symbolic(e) ==
    CASE e.kind \in {"Text", "Mapping", "Variable"} -> TRUE
      [] e.kind = "Negate" ->
             e.a # None /\ e.a[1].kind # "Negate" /\ Symbolic(e.a[1])
      [] e.kind \in {"Divide", "Equal"} ->
             e.a # None /\ e.b # None /\ Symbolic(e.a[1]) /\ Symbolic(e.b[1])
      [] OTHER -> FALSE

\* the assertions of test_division_simplification on a Divide of two leaves
C27_Examples ==
    LET x == OpText("x")
        d(a, b) == OpDivide(Some(a), Some(b))
    IN  /\ operation_simplify(d(x, OpValue(F(3)))) = Some(d(x, OpValue(F(3))))
        /\ operation_simplify(d(OpValue(F(2)), x)) = Some(d(OpValue(F(2)), x))
        /\ operation_simplify(d(x, OpText("y"))) = None

IsOperand(c) == c \notin Operators \cup {"(", ")", " "}

\* a character that is an operator or an operand
IsToken(c) == c \notin {"(", ")", " "}

\* how often c occurs in s
Occurrences(s, c) == Cardinality({i \in 1..Len(s) : s[i] = c})

\* C30: for every input without braces whose parentheses are balanced, the
\* tokens returned are the operand and operator characters of the input, each
\* exactly once and nothing else, with the operands in the order they have in
\* the input; and at every step of the scan operator_stack holds operator
\* and '(' characters only
C30_TokensConserved ==
    /\ (pc = "build" /\ ~HasBrace(input) /\ ParenDepth(input, 0) = 0) =>
           /\ Len(output) = Len(SelectSeq(input, IsToken))
           /\ \A o \in Operators : Occurrences(output, o) = Occurrences(input, o)
           /\ SelectSeq(output, IsOperand) = SelectSeq(input, IsOperand)
    /\ ~HasBrace(input) =>
           \A i \in 1..Len(operator_stack) : operator_stack[i] \in Operators \cup {"("}

\* (a+b)*4 is tokenized
C30_Witness ==
    /\ pc = "build"
    /\ input = <<"(", "a", "+", "b", ")", "*", "4">>
    /\ output = <<"a", "b", "+", "4", "*">>


====
